---- MODULE Spec2Model ----
(***************************************************************************)
(* Model of gs.dmarc.lookup (src/gs/dmarc/lookup.py): the Dmarc object,    *)
(* its TXT-record parser and decoder, the two-step receiver-policy lookup  *)
(* and the pct sampling gate.                                              *)
(*                                                                         *)
(* Python strings are sequences of one-character strings, so that strip,   *)
(* split and startswith are computed character by character.  A host name  *)
(* is the sequence of its dot-separated labels.                            *)
(***************************************************************************)
EXTENDS Integers, Sequences, FiniteSets, TLC

VARIABLES dmarc, queries, outcome, loads, calls

vars == <<dmarc, queries, outcome, loads, calls>>

\* The number of calls made on the object in one run.
MaxCalls == 2

(***************************************************************************)
(* Python values.                                                          *)
(***************************************************************************)
\* Python's None.
None == <<"None">>

\* A Python int.
PyInt(n) == <<"int", n>>

\* A Python list.
List(s) == <<"list", s>>

\* The result of an expression: a value, or the exception it raised.
Ok(v) == [exc |-> "", val |-> v]

Raise(e) == [exc |-> e, val |-> None]

(***************************************************************************)
(* The enumerations.  Each table maps a member name to the member.         *)
(***************************************************************************)
ReceiverPolicy ==
    (<<"n", "o", "D", "m", "a", "r", "c">> :> <<"ReceiverPolicy", "noDmarc">>)
    @@ (<<"n", "o", "n", "e">> :> <<"ReceiverPolicy", "none">>)
    @@ (<<"q", "u", "a", "r", "a", "n", "t", "i", "n", "e">> :> <<"ReceiverPolicy", "quarantine">>)
    @@ (<<"r", "e", "j", "e", "c", "t">> :> <<"ReceiverPolicy", "reject">>)

AlignmentMode ==
    (<<"r", "e", "l", "a", "x", "e", "d">> :> <<"AlignmentMode", "relaxed">>)
    @@ (<<"s", "t", "r", "i", "c", "t">> :> <<"AlignmentMode", "strict">>)

FailureReporting ==
    (<<"a", "l", "l">> :> <<"FailureReporting", "all">>)
    @@ (<<"a", "n", "y">> :> <<"FailureReporting", "any">>)
    @@ (<<"d", "k", "i", "m">> :> <<"FailureReporting", "dkim">>)
    @@ (<<"s", "p", "f">> :> <<"FailureReporting", "spf">>)

noDmarc == <<"ReceiverPolicy", "noDmarc">>

quarantine == <<"ReceiverPolicy", "quarantine">>

relaxed == <<"AlignmentMode", "relaxed">>

all == <<"FailureReporting", "all">>

\* Attributes every Enum class has that are not members: hasattr is true of
\* them and the class subscript raises KeyError.
ClassAttrs == {<<"_", "_", "d", "o", "c", "_", "_">>}

\* hasattr(enum, value)
hasattr(enum, value) == value \in DOMAIN enum \/ value \in ClassAttrs

\* enum[value]
getitem(enum, value) ==
    IF value \in DOMAIN enum THEN Ok(enum[value]) ELSE Raise("KeyError")

(***************************************************************************)
(* str methods.                                                            *)
(***************************************************************************)
RECURSIVE lstrip(_, _)
lstrip(s, chars) ==
    IF s # <<>> /\ Head(s) \in chars THEN lstrip(Tail(s), chars) ELSE s

RECURSIVE rstrip(_, _)
rstrip(s, chars) ==
    IF s # <<>> /\ s[Len(s)] \in chars
    THEN rstrip(SubSeq(s, 1, Len(s) - 1), chars)
    ELSE s

\* s.strip(chars): every leading and trailing character of chars is removed.
strip(s, chars) == rstrip(lstrip(s, chars), chars)

\* The characters s.strip() removes.
Whitespace == {" ", "\t", "\n", "\r", "\f"}

\* s.find(sep) + 1, for an s that has sep in it.
find(s, sep) ==
    CHOOSE k \in 1..Len(s) : s[k] = sep /\ \A j \in 1..(k - 1) : s[j] # sep

\* s.split(sep), sep one character: every occurrence separates.
RECURSIVE split(_, _)
split(s, sep) ==
    IF \A i \in 1..Len(s) : s[i] # sep
    THEN <<s>>
    ELSE <<SubSeq(s, 1, find(s, sep) - 1)>>
         \o split(SubSeq(s, find(s, sep) + 1, Len(s)), sep)

\* s.startswith(prefix)
startswith(s, prefix) ==
    Len(s) >= Len(prefix) /\ SubSeq(s, 1, Len(prefix)) = prefix

DigitValue ==
    ("0" :> 0) @@ ("1" :> 1) @@ ("2" :> 2) @@ ("3" :> 3) @@ ("4" :> 4)
    @@ ("5" :> 5) @@ ("6" :> 6) @@ ("7" :> 7) @@ ("8" :> 8) @@ ("9" :> 9)

RECURSIVE DigitsToNat(_)
DigitsToNat(s) ==
    IF s = <<>> THEN 0
    ELSE 10 * DigitsToNat(SubSeq(s, 1, Len(s) - 1)) + DigitValue[s[Len(s)]]

\* The int that a sign and a text after it denote.
IntOfDigits(negative, digits) ==
    IF digits # <<>> /\ \A i \in 1..Len(digits) : digits[i] \in DOMAIN DigitValue
    THEN Ok(PyInt(IF negative THEN 0 - DigitsToNat(digits) ELSE DigitsToNat(digits)))
    ELSE Raise("ValueError")

\* The int that a text without surrounding whitespace denotes.
IntOfText(t) ==
    IF t # <<>> /\ Head(t) \in {"+", "-"}
    THEN IntOfDigits(Head(t) = "-", Tail(t))
    ELSE IntOfDigits(FALSE, t)

\* int(value): surrounding whitespace, an optional sign, decimal digits.
int(value) == IntOfText(strip(value, Whitespace))

(***************************************************************************)
(* ReportAddress.                                                          *)
(***************************************************************************)
\* The attributes ReportAddress.__init__ sets from address and its chunks.
ReportAddressOf(address, chunks) ==
    [plain_address |-> address,
     address |-> chunks[1],
     size_limit |-> IF Len(chunks) = 2 THEN chunks[2] ELSE None]

\* ReportAddress.__init__
ReportAddress(address) == ReportAddressOf(address, split(address, "!"))

(***************************************************************************)
(* Dmarc.                                                                  *)
(***************************************************************************)
\* Dmarc.__init__
NewDmarc ==
    [record |-> None,
     version |-> None,
     policy |-> None,
     subdomain_policy |-> None,
     adkim |-> relaxed,
     aspf |-> relaxed,
     percent |-> None,
     rua |-> None,
     ri |-> PyInt(86400),
     rf |-> <<"a", "f", "r", "f">>,
     ruf |-> None,
     failure_reporting |-> all,
     parsed_record |-> <<>>,
     psl |-> None]

\* Truth value of an attribute: None and the int 0 are false, an enumeration
\* member and a suffix-list object are true.
Truthy(v) == v # None /\ v # PyInt(0)

NonEmpty(t) == t # <<>>

\* The index of the last pair of tags whose tag is k.
LastOf(tags, k) ==
    CHOOSE i \in 1..Len(tags) :
        tags[i][1] = k /\ \A j \in (i + 1)..Len(tags) : tags[j][1] # k

\* dict(tags): a function from tag to value; of a repeated tag the last pair
\* stays.
dict(tags) ==
    [k \in {tags[i][1] : i \in 1..Len(tags)} |-> tags[LastOf(tags, k)][2]]

\* tags = [(t[0].strip(), t[1].strip()) for t in rawTags]; dict(tags)
TagsToDict(rawTags) ==
    IF \E i \in 1..Len(rawTags) : Len(rawTags[i]) < 2
    THEN Raise("IndexError")
    ELSE Ok(dict([i \in 1..Len(rawTags) |->
                     <<strip(rawTags[i][1], Whitespace),
                       strip(rawTags[i][2], Whitespace)>>]))

\* rawTags = [t.split('=') for t in a.split(';') if t]
RawTags(segments) == [i \in 1..Len(segments) |-> split(segments[i], "=")]

\* Dmarc.__answer_to_dict
answer_to_dict(answer) ==
    TagsToDict(RawTags(SelectSeq(split(strip(strip(answer, {"\""}), {" "}), ";"),
                                 NonEmpty)))

\* The mapping table of Dmarc.__map_record_fields.
mapping ==
    (<<"v">> :> "version")
    @@ (<<"p">> :> "policy")
    @@ (<<"s", "p">> :> "subdomain_policy")
    @@ (<<"a", "d", "k", "i", "m">> :> "adkim")
    @@ (<<"a", "s", "p", "f">> :> "aspf")
    @@ (<<"p", "c", "t">> :> "percent")
    @@ (<<"r", "u", "a">> :> "rua")
    @@ (<<"r", "i">> :> "ri")
    @@ (<<"r", "f">> :> "rf")
    @@ (<<"r", "u", "f">> :> "ruf")
    @@ (<<"f", "o">> :> "failure_reporting")

\* if key == "p" or key == "sp": ...
ConvertPolicy(key, value) ==
    IF key = <<"p">> \/ key = <<"s", "p">>
    THEN IF hasattr(ReceiverPolicy, value)
         THEN getitem(ReceiverPolicy, value)
         ELSE Ok(noDmarc)
    ELSE Ok(value)

\* if key == "pct" or key == "ri": value = int(value)
ConvertInt(key, v) ==
    IF v.exc = "" /\ (key = <<"p", "c", "t">> \/ key = <<"r", "i">>)
    THEN int(v.val)
    ELSE v

\* [ReportAddress(i) for i in tokens]
ReportAddresses(tokens) ==
    List([i \in 1..Len(tokens) |-> ReportAddress(tokens[i])])

\* if key == "rua" or key == "ruf": ...
ConvertAddresses(key, v) ==
    IF v.exc = "" /\ (key = <<"r", "u", "a">> \/ key = <<"r", "u", "f">>)
    THEN Ok(ReportAddresses(split(v.val, ",")))
    ELSE v

\* if key == "aspf" or key == "adkim" and hasattr(AlignmentMode, value): ...
ConvertAlignment(key, v) ==
    IF /\ v.exc = ""
       /\ \/ key = <<"a", "s", "p", "f">>
          \/ (key = <<"a", "d", "k", "i", "m">> /\ hasattr(AlignmentMode, v.val))
    THEN getitem(AlignmentMode, v.val)
    ELSE v

\* if key == "fo" and hasattr(FailureReporting, value): ...
ConvertFailureReporting(key, v) ==
    IF v.exc = "" /\ key = <<"f", "o">> /\ hasattr(FailureReporting, v.val)
    THEN getitem(FailureReporting, v.val)
    ELSE v

\* The conversions one pass of the loop of Dmarc.__map_record_fields applies
\* to value before the setattr, in the order of the code.
ConvertValue(key, value) ==
    ConvertFailureReporting(key,
        ConvertAlignment(key,
            ConvertAddresses(key,
                ConvertInt(key,
                    ConvertPolicy(key, value)))))

\* setattr(self, mapping[key], value), v being the converted value or the
\* exception the conversion raised.
SetAttr(self, key, v) ==
    IF v.exc # "" THEN [self |-> self, exc |-> v.exc]
    ELSE IF key \notin DOMAIN mapping THEN [self |-> self, exc |-> "KeyError"]
    ELSE [self |-> [self EXCEPT ![mapping[key]] = v.val], exc |-> ""]

\* One pass of the loop: the conversions, then the setattr.
MapItem(self, key, value) == SetAttr(self, key, ConvertValue(key, value))

\* The loop over record_dict.items() taken in the order given; it stops at
\* the first exception and keeps the attributes set so far.
RECURSIVE MapItems(_, _, _)
MapRest(r, record_dict, order) ==
    IF r.exc # "" THEN r ELSE MapItems(r.self, record_dict, order)

MapItems(self, record_dict, order) ==
    IF order = <<>> THEN [self |-> self, exc |-> ""]
    ELSE MapRest(MapItem(self, Head(order), record_dict[Head(order)]),
                 record_dict, Tail(order))

\* The orders in which a dict may yield its keys.
RECURSIVE Orders(_)
Orders(keys) ==
    IF keys = {} THEN {<<>>}
    ELSE UNION {{<<k>> \o o : o \in Orders(keys \ {k})} : k \in keys}

\* Dmarc.__map_record_fields: one outcome per iteration order of the dict.
map_record_fields(self, record_dict) ==
    {MapItems(self, record_dict, o) : o \in Orders(DOMAIN record_dict)}

(***************************************************************************)
(* The environment: DNS replies, host names and suffix lists.              *)
(***************************************************************************)
\* str(dnsAnswer[0]): the text of a TXT answer, in double quotes.
Txt(body) == <<"\"">> \o body \o <<"\"">>

\* "v=DMARC1; p=reject"
R_reject ==
    Txt(<<"v", "=", "D", "M", "A", "R", "C", "1", ";", " ", "p", "=", "r", "e", "j", "e", "c", "t">>)

\* "v=DMARC1; p=quarantine; adkim=strict; fo=dkim"
R_quarantine ==
    Txt(<<"v", "=", "D", "M", "A", "R", "C", "1", ";", " ", "p", "=", "q", "u", "a", "r", "a", "n", "t", "i", "n", "e", ";", " ", "a", "d", "k", "i", "m", "=", "s", "t", "r", "i", "c", "t", ";", " ", "f", "o", "=", "d", "k", "i", "m">>)

\* "v=DMARC1; p=none; pct=50; ri=3600;"
R_pct50 ==
    Txt(<<"v", "=", "D", "M", "A", "R", "C", "1", ";", " ", "p", "=", "n", "o", "n", "e", ";", " ", "p", "c", "t", "=", "5", "0", ";", " ", "r", "i", "=", "3", "6", "0", "0", ";">>)

\* "v=DMARC1; sp=reject; aspf=strict"
R_nop ==
    Txt(<<"v", "=", "D", "M", "A", "R", "C", "1", ";", " ", "s", "p", "=", "r", "e", "j", "e", "c", "t", ";", " ", "a", "s", "p", "f", "=", "s", "t", "r", "i", "c", "t">>)

\* "p=reject; v=DMARC1"
R_misplaced ==
    Txt(<<"p", "=", "r", "e", "j", "e", "c", "t", ";", " ", "v", "=", "D", "M", "A", "R", "C", "1">>)

\* "v=DMARC1; p=reject; x=y"
R_unknown ==
    Txt(<<"v", "=", "D", "M", "A", "R", "C", "1", ";", " ", "p", "=", "r", "e", "j", "e", "c", "t", ";", " ", "x", "=", "y">>)

\* "v=DMARC1; p=none; adkim=s"
R_badadkim ==
    Txt(<<"v", "=", "D", "M", "A", "R", "C", "1", ";", " ", "p", "=", "n", "o", "n", "e", ";", " ", "a", "d", "k", "i", "m", "=", "s">>)

\* "v=DMARC1; p=none; aspf=s"
R_badaspf ==
    Txt(<<"v", "=", "D", "M", "A", "R", "C", "1", ";", " ", "p", "=", "n", "o", "n", "e", ";", " ", "a", "s", "p", "f", "=", "s">>)

\* "v=DMARC1; p=none; fo=1"
R_badfo ==
    Txt(<<"v", "=", "D", "M", "A", "R", "C", "1", ";", " ", "p", "=", "n", "o", "n", "e", ";", " ", "f", "o", "=", "1">>)

\* "v=DMARC1; p=none; pct=100; rua=m:a?s=1!9m,m:b"
R_rua ==
    Txt(<<"v", "=", "D", "M", "A", "R", "C", "1", ";", " ", "p", "=", "n", "o", "n", "e", ";", " ", "p", "c", "t", "=", "1", "0", "0", ";", " ", "r", "u", "a", "=", "m", ":", "a", "?", "s", "=", "1", "!", "9", "m", ",", "m", ":", "b">>)

\* "v=DMARC1; p=bogus"
R_badp ==
    Txt(<<"v", "=", "D", "M", "A", "R", "C", "1", ";", " ", "p", "=", "b", "o", "g", "u", "s">>)

\* "v=DMARC1; p=none; pct=x"
R_badpct ==
    Txt(<<"v", "=", "D", "M", "A", "R", "C", "1", ";", " ", "p", "=", "n", "o", "n", "e", ";", " ", "p", "c", "t", "=", "x">>)

\* "v=DMARC1; p"
R_noeq ==
    Txt(<<"v", "=", "D", "M", "A", "R", "C", "1", ";", " ", "p">>)

Answers ==
    {R_reject,
     R_quarantine,
     R_pct50,
     R_nop,
     R_misplaced,
     R_unknown,
     R_badadkim,
     R_badaspf,
     R_badfo,
     R_rua,
     R_badp,
     R_badpct,
     R_noeq}

\* What dns_query(dmarcHost, 'TXT') does: it raises NXDOMAIN or NoAnswer,
\* raises another error (Timeout), or returns an answer.
Replies ==
    {[kind |-> k, txt |-> <<>>] : k \in {"NXDOMAIN", "NoAnswer", "Timeout"}}
    \cup {[kind |-> "answer", txt |-> r] : r \in Answers}

Hosts ==
    {<<"mail", "example", "com">>,
     <<"_dmarc", "shop", "example", "co", "uk">>}

\* A PublicSuffixList object: where it came from and its rules.
PublicSuffixList(origin, rules) == <<"PublicSuffixList", origin, rules>>

\* The list read from suffixlist.txt.
FilePsl == PublicSuffixList("file", {<<"com">>, <<"uk">>, <<"co", "uk">>})

\* A list handed to set_public_suffix_list.
InjectedPsls ==
    {PublicSuffixList("injected", {<<"com">>, <<"uk">>, <<"example", "com">>})}

\* psl.get_public_suffix(host): the longest rule that is a suffix of host
\* (the last label when none is) and one more label when host has one.
MatchingRules(psl, host) ==
    {k \in 1..Len(host) : SubSeq(host, Len(host) - k + 1, Len(host)) \in psl[3]}

\* The last k + 1 labels of host, or host when it has no more than k.
Registrable(host, k) ==
    IF Len(host) > k THEN SubSeq(host, Len(host) - k, Len(host)) ELSE host

LongestRule(matching) ==
    IF matching = {} THEN 1
    ELSE CHOOSE m \in matching : \A x \in matching : x <= m

get_public_suffix(psl, host) ==
    Registrable(host, LongestRule(MatchingRules(psl, host)))

(***************************************************************************)
(* The lookups.                                                            *)
(***************************************************************************)
\* '_dmarc.{0}'.format(host)
dmarcHost(host) == <<"_dmarc">> \o host

\* The literal of the version test.
VersionPrefix == <<"\"", "v", "=", "D", "M", "A", "R", "C", "1">>

\* The version tag looked for anywhere in the record instead of at its start.
VersionAnywhere(record) ==
    \E i \in 1..Len(record) :
        /\ i + 7 <= Len(record)
        /\ SubSeq(record, i, i + 7) = Tail(VersionPrefix)

\* self.record.startswith('"v=DMARC1')
VersionFirst(record) == startswith(record, VersionPrefix)

\* What a lookup does: the object after it, the exception raised ("" when
\* none) and the value returned.
Returns(self, retval) == [self |-> self, exc |-> "", retval |-> retval]

Raises(self, exc) == [self |-> self, exc |-> exc, retval |-> None]

\* if not self.policy: raise ...; retval = self.policy, after the mapping m.
CheckPolicy(m) ==
    IF m.exc # "" THEN Raises(m.self, m.exc)
    ELSE IF ~Truthy(m.self.policy) THEN Raises(m.self, "DMARC policy not set")
    ELSE Returns(m.self, m.self.policy)

\* self.__parsed_record = ...; self.__map_record_fields(self.__parsed_record),
\* d being what __answer_to_dict gave.
MapParsed(self, d) ==
    IF d.exc # "" THEN {Raises(self, d.exc)}
    ELSE {CheckPolicy(m) :
             m \in map_record_fields([self EXCEPT !.parsed_record = d.val], d.val)}

\* The else branch of the try, self.record being set.
Decode(self) ==
    IF VersionFirst(self.record)
    THEN MapParsed(self, answer_to_dict(self.record))
    ELSE {Raises(self, "Unknown DMARC version in record")}

\* Dmarc.lookup_receiver_policy, the DNS reply given.
lookup_receiver_policy(self, host, reply) ==
    IF reply.kind \in {"NXDOMAIN", "NoAnswer"} THEN {Returns(self, noDmarc)}
    ELSE IF reply.kind # "answer" THEN {Raises(self, reply.kind)}
    ELSE Decode([self EXCEPT !.record = reply.txt])

\* host if host[:7] != '_dmarc.' else host[7:]
hostSansDmarc(host) ==
    IF ~(Len(host) >= 2 /\ host[1] = "_dmarc") THEN host ELSE Tail(host)

\* The fallback taken only when the lookup returned nothing at all.
NeedsFallbackOnNothing(retval) == retval = None

\* The fallback taken for a published p=none as well.
NeedsFallbackOnNone(retval) == retval \in {noDmarc, <<"ReceiverPolicy", "none">>}

\* retval == ReceiverPolicy.noDmarc
NeedsFallback(retval) == retval = noDmarc

\* The suffix list read on every fallback.
LoadsPslAlways(self) == TRUE

\* not self.__psl
LoadsPsl(self) == ~Truthy(self.psl)

\* One entry of the log of DNS queries of a call.
Query(host, reply, r) ==
    [name |-> dmarcHost(host), reply |-> reply, exc |-> r.exc, retval |-> r.retval]

\* if not self.__psl: ... self.__psl = PublicSuffixList(suffixList)
WithPsl(self) ==
    IF LoadsPsl(self) THEN [self EXCEPT !.psl = FilePsl] ELSE self

\* What a call does: as for a lookup, with the queries made and whether the
\* suffix-list file was read.
Called(r, queries_, loaded) ==
    [self |-> r.self, exc |-> r.exc, retval |-> r.retval,
     queries |-> queries_, loaded |-> loaded]

\* retval = self.lookup_receiver_policy(newHost)
Second(self, newHost, query1, loaded, replies2) ==
    UNION {{Called(second, <<query1, Query(newHost, reply2, second)>>, loaded) :
               second \in lookup_receiver_policy(self, newHost, reply2)} :
           reply2 \in replies2}

\* The body of the if, the first lookup having returned.
Fallback(first, host, query1, replies2) ==
    Second(WithPsl(first.self),
           get_public_suffix(WithPsl(first.self).psl, host),
           query1,
           IF LoadsPsl(first.self) THEN 1 ELSE 0,
           replies2)

\* The part of the call after the first lookup.
AfterFirst(first, host, query1, replies2) ==
    IF first.exc = "" /\ NeedsFallback(first.retval)
    THEN Fallback(first, host, query1, replies2)
    ELSE {Called(first, <<query1>>, 0)}

\* The call on the host without its _dmarc prefix.
Resolve(self, host, reply1, replies2) ==
    UNION {AfterFirst(first, host, Query(host, reply1, first), replies2) :
           first \in lookup_receiver_policy(self, host, reply1)}

\* Dmarc.__receiver_policy: the first DNS reply is reply1 and the second,
\* when a second query is made, is any of replies2.
receiver_policy(self, host, reply1, replies2) ==
    Resolve(self, hostSansDmarc(host), reply1, replies2)

\* The comparison with <= in place of <.
should_check_le(self, draw) ==
    IF ~Truthy(self.percent) THEN TRUE ELSE draw <= self.percent[2]

\* Dmarc.should_check, draw being the value of random.randint(0, 99).
should_check(self, draw) ==
    IF ~Truthy(self.percent) THEN TRUE ELSE draw < self.percent[2]

(***************************************************************************)
(* The state machine: one Dmarc object and the calls made on it.           *)
(***************************************************************************)
\* What the last call was, what it raised or returned, whether it read the
\* suffix-list file, and for should_check the draw and the answer.
Outcome(op, host, exc, retval, loaded, draw, check) ==
    [op |-> op, host |-> host, exc |-> exc, retval |-> retval,
     loaded |-> loaded, draw |-> draw, check |-> check]

Init ==
    /\ dmarc = NewDmarc
    /\ queries = <<>>
    /\ outcome = Outcome("init", <<>>, "", None, 0, 0, FALSE)
    /\ loads = 0
    /\ calls = 0

ReceiverPolicyCall ==
    /\ calls < MaxCalls
    /\ \E host \in Hosts, reply1 \in Replies :
        \E r \in receiver_policy(dmarc, host, reply1, Replies) :
            /\ dmarc' = r.self
            /\ queries' = r.queries
            /\ outcome' = Outcome("receiver_policy", host, r.exc, r.retval,
                                  r.loaded, 0, FALSE)
            /\ loads' = loads + r.loaded
            /\ calls' = calls + 1

LookupReceiverPolicyCall ==
    /\ calls < MaxCalls
    /\ \E host \in Hosts, reply \in Replies :
        \E r \in lookup_receiver_policy(dmarc, host, reply) :
            /\ dmarc' = r.self
            /\ queries' = <<Query(host, reply, r)>>
            /\ outcome' = Outcome("lookup_receiver_policy", host, r.exc, r.retval,
                                  0, 0, FALSE)
            /\ loads' = loads
            /\ calls' = calls + 1

SetPublicSuffixList ==
    /\ calls < MaxCalls
    /\ \E psl \in InjectedPsls :
        /\ dmarc' = [dmarc EXCEPT !.psl = psl]
        /\ queries' = <<>>
        /\ outcome' = Outcome("set_public_suffix_list", <<>>, "", None, 0, 0, FALSE)
        /\ loads' = loads
        /\ calls' = calls + 1

ShouldCheck ==
    /\ calls < MaxCalls
    /\ \E draw \in 0..99 :
        /\ outcome' = Outcome("should_check", <<>>, "", None, 0, draw,
                              should_check(dmarc, draw))
        /\ queries' = <<>>
        /\ calls' = calls + 1
        /\ UNCHANGED <<dmarc, loads>>

Next ==
    \/ ReceiverPolicyCall
    \/ LookupReceiverPolicyCall
    \/ SetPublicSuffixList

Spec == Init /\ [][Next]_vars

(***************************************************************************)
(* The sampling gate on its own: the object has decoded one record, with   *)
(* any pct from 0 to MaxPct or with none, and should_check is called.      *)
(***************************************************************************)
MaxPct == 100

\* str(n) for a natural number n.
RECURSIVE str(_)
str(n) ==
    LET digit == CHOOSE c \in DOMAIN DigitValue : DigitValue[c] = n % 10
    IN  IF n < 10 THEN <<digit>> ELSE str(n \div 10) \o <<digit>>

\* "v=DMARC1; p=none; pct=<n>"
R_pct(n) ==
    Txt(<<"v", "=", "D", "M", "A", "R", "C", "1", ";", " ", "p", "=", "n", "o", "n", "e", ";", " ", "p", "c", "t", "=">> \o str(n))

GateReplies ==
    {[kind |-> "answer", txt |-> R_reject]}
    \cup {[kind |-> "answer", txt |-> R_pct(n)] : n \in 0..MaxPct}

InitGate ==
    /\ \E host \in Hosts, reply \in GateReplies :
           \E r \in lookup_receiver_policy(NewDmarc, host, reply) :
               /\ dmarc = r.self
               /\ queries = <<Query(host, reply, r)>>
               /\ outcome = Outcome("lookup_receiver_policy", host, r.exc, r.retval,
                                    0, 0, FALSE)
    /\ loads = 0
    /\ calls = 0

NextGate == ShouldCheck

SpecGate == InitGate /\ [][NextGate]_vars

(***************************************************************************)
(* Properties.                                                             *)
(***************************************************************************)
\* The last call was a lookup.
Looked == outcome.op \in {"receiver_policy", "lookup_receiver_policy"}

NoRecord(reply) == reply.kind \in {"NXDOMAIN", "NoAnswer"}

\* The organizational domain the suffix list of the object gives for the host
\* of the last call.
OrgDomain == get_public_suffix(dmarc.psl, hostSansDmarc(outcome.host))

\* C1: when the query for _dmarc.<host> finds no record, receiver_policy makes
\* a second lookup, on the organizational domain, and returns what that lookup
\* returns: quarantine when the domain publishes p=quarantine, noDmarc when it
\* has no record either.
C1_FallbackResult ==
    (outcome.op = "receiver_policy" /\ NoRecord(queries[1].reply)) =>
        /\ Len(queries) = 2
        /\ queries[2].name = dmarcHost(OrgDomain)
        /\ outcome.exc = queries[2].exc
        /\ outcome.retval = queries[2].retval
        /\ queries[2].reply.txt = R_quarantine =>
               outcome.exc = "" /\ outcome.retval = quarantine
        /\ NoRecord(queries[2].reply) =>
               outcome.exc = "" /\ outcome.retval = noDmarc

C1_Witness ==
    /\ outcome.op = "receiver_policy"
    /\ outcome.host = <<"mail", "example", "com">>
    /\ Len(queries) = 2
    /\ queries[1].reply.kind = "NXDOMAIN"
    /\ queries[2].name = <<"_dmarc", "example", "com">>
    /\ queries[2].reply.txt = R_quarantine
    /\ outcome.retval = quarantine

\* The answer parses and has no p tag.
NoPolicyTag(txt) ==
    /\ answer_to_dict(txt).exc = ""
    /\ <<"p">> \notin DOMAIN answer_to_dict(txt).val

\* C2: every lookup answered by a record that starts with the version prefix
\* and has no p tag raises "DMARC policy not set" and returns no policy,
\* whatever the object decoded before.
C2_PolicyNotSet ==
    Looked =>
        \A i \in 1..Len(queries) :
            (/\ queries[i].reply.kind = "answer"
             /\ startswith(queries[i].reply.txt, VersionPrefix)
             /\ NoPolicyTag(queries[i].reply.txt)) =>
                /\ queries[i].exc = "DMARC policy not set"
                /\ queries[i].retval = None

C4_TwoQueries ==
    outcome.op = "receiver_policy" =>
        /\ Len(queries) \in {1, 2}
        /\ queries[1].name = dmarcHost(hostSansDmarc(outcome.host))
        /\ Len(queries) = 2 =>
               /\ queries[1].exc = ""
               /\ queries[1].retval = noDmarc
               /\ queries[2].name = dmarcHost(OrgDomain)

C4_Witness ==
    /\ outcome.op = "receiver_policy"
    /\ outcome.host = <<"_dmarc", "shop", "example", "co", "uk">>
    /\ dmarc.psl = FilePsl
    /\ Len(queries) = 2
    /\ queries[1].name = <<"_dmarc", "shop", "example", "co", "uk">>
    /\ queries[1].reply.kind = "NoAnswer"
    /\ queries[2].name = <<"_dmarc", "example", "co", "uk">>

\* The attributes that hold the decoded record.
Decoded(self) ==
    <<self.policy, self.subdomain_policy, self.adkim, self.aspf, self.percent,
      self.rua, self.ruf, self.ri, self.rf, self.failure_reporting>>

\* C5: after a lookup that decoded an answer, the decoded attributes are those
\* the same answer gives on a new object: they depend on the answer alone, and
\* an attribute whose tag is absent has its default.
C5_DecodedFromAnswerAlone ==
    (Looked /\ outcome.exc = "" /\ queries[Len(queries)].reply.kind = "answer") =>
        \A fresh \in lookup_receiver_policy(NewDmarc, outcome.host,
                                            queries[Len(queries)].reply) :
            Decoded(dmarc) = Decoded(fresh.self)

\* Answers that differ by one tag with an unknown name.
UnknownTagPairs ==
    {[with |-> R_unknown, without |-> R_reject]}

\* C6: a lookup answered by a record with an unknown tag does what it does
\* when answered by the record without that tag: it raises nothing, returns
\* the same policy and leaves the same decoded attributes.
C6_UnknownTagIgnored ==
    [][\A pair \in UnknownTagPairs :
           (/\ outcome'.op = "lookup_receiver_policy"
            /\ queries'[1].reply.txt = pair.with) =>
               \E r \in lookup_receiver_policy(dmarc, outcome'.host,
                            [kind |-> "answer", txt |-> pair.without]) :
                   /\ outcome'.exc = ""
                   /\ r.exc = ""
                   /\ outcome'.retval = r.retval
                   /\ Decoded(dmarc') = Decoded(r.self)]_vars

\* The answer is well formed: it starts with the version prefix, parses, has
\* only known tags, a p tag that names a policy and numeric pct and ri.
WellFormed(txt) ==
    /\ startswith(txt, VersionPrefix)
    /\ answer_to_dict(txt).exc = ""
    /\ LET d == answer_to_dict(txt).val
       IN  /\ DOMAIN d \subseteq DOMAIN mapping
           /\ <<"p">> \in DOMAIN d
           /\ d[<<"p">>] \in DOMAIN ReceiverPolicy
           /\ \A k \in {<<"p", "c", "t">>, <<"r", "i">>} \cap DOMAIN d :
                  int(d[k]).exc = ""

\* The answer gives tag a value that is not a member name of enum.
BadValue(txt, tag, enum) ==
    LET d == answer_to_dict(txt).val
    IN  tag \in DOMAIN d /\ d[tag] \notin DOMAIN enum

\* C7: a lookup answered by a well-formed record whose adkim, aspf or fo
\* value is not a member name raises nothing and leaves that attribute at
\* its default: relaxed, relaxed, all.
C7_BadValueKeepsDefault ==
    (/\ Looked
     /\ queries[Len(queries)].reply.kind = "answer"
     /\ WellFormed(queries[Len(queries)].reply.txt)) =>
        LET txt == queries[Len(queries)].reply.txt
        IN  /\ BadValue(txt, <<"a", "d", "k", "i", "m">>, AlignmentMode) =>
                   outcome.exc = "" /\ dmarc.adkim = relaxed
            /\ BadValue(txt, <<"a", "s", "p", "f">>, AlignmentMode) =>
                   outcome.exc = "" /\ dmarc.aspf = relaxed
            /\ BadValue(txt, <<"f", "o">>, FailureReporting) =>
                   outcome.exc = "" /\ dmarc.failure_reporting = all

\* C8: should_check answers true for every draw when percent is None or 0,
\* and otherwise exactly when the draw is below percent: for every draw when
\* percent is 100, for the draws 0..49 when percent is 50.
C8_ShouldCheck ==
    outcome.op = "should_check" =>
        /\ outcome.draw \in 0..99
        /\ (dmarc.percent = None \/ dmarc.percent = PyInt(0)) => outcome.check
        /\ (dmarc.percent # None /\ dmarc.percent # PyInt(0)) =>
               (outcome.check <=> outcome.draw < dmarc.percent[2])
        /\ dmarc.percent = PyInt(100) => outcome.check
        /\ dmarc.percent = PyInt(50) => (outcome.check <=> outcome.draw \in 0..49)

C8_Witness ==
    /\ outcome.op = "should_check"
    /\ dmarc.percent = PyInt(50)
    /\ outcome.draw = 50
    /\ ~outcome.check

\* C9: the suffix-list file is read at most once: by the first
\* receiver_policy call that falls back while the object has no list, after
\* which the list is kept; a call never reads it while the object has a list,
\* loaded or handed to set_public_suffix_list.
C9_LoadOnce ==
    /\ [](loads <= 1)
    /\ [][/\ dmarc.psl # None => (loads' = loads /\ dmarc'.psl # None)
          /\ (dmarc.psl # None /\ outcome'.op = "receiver_policy") =>
                 dmarc'.psl = dmarc.psl
          /\ (/\ dmarc.psl = None
              /\ outcome'.op = "receiver_policy"
              /\ Len(queries') = 2) =>
                 (loads' = loads + 1 /\ dmarc'.psl = FilePsl)
          /\ loads' # loads =>
                 /\ dmarc.psl = None
                 /\ outcome'.op = "receiver_policy"
                 /\ Len(queries') = 2]_vars

C9_Witness ==
    /\ loads = 1
    /\ dmarc.psl = FilePsl
    /\ outcome.op = "receiver_policy"
    /\ Len(queries) = 2
    /\ outcome.loaded = 0

\* s.partition(sep): the text before the first sep and the text after it.
SplitFirst(s, sep) ==
    LET i == CHOOSE k \in 1..Len(s) :
                 s[k] = sep /\ \A j \in 1..(k - 1) : s[j] # sep
    IN  <<SubSeq(s, 1, i - 1), SubSeq(s, i + 1, Len(s))>>

\* The non-empty segments of an answer.
Segments(txt) ==
    SelectSeq(split(strip(strip(txt, {"\""}), {" "}), ";"), NonEmpty)

\* C10: once an answer is parsed, the dict holds for every segment tag=value
\* (the tag occurring once) the whole text after the first "=", trimmed, as
\* the value of the tag, also when that text has further "=" in it.
C10_SplitOnFirstEquals ==
    (/\ Looked
     /\ queries[Len(queries)].reply.kind = "answer"
     /\ startswith(queries[Len(queries)].reply.txt, VersionPrefix)
     /\ answer_to_dict(queries[Len(queries)].reply.txt).exc = "") =>
        LET segs == Segments(queries[Len(queries)].reply.txt)
            tag(i) == strip(SplitFirst(segs[i], "=")[1], Whitespace)
        IN  \A i \in 1..Len(segs) :
                (\A j \in 1..Len(segs) : tag(j) = tag(i) => j = i) =>
                    /\ tag(i) \in DOMAIN dmarc.parsed_record
                    /\ dmarc.parsed_record[tag(i)] =
                           strip(SplitFirst(segs[i], "=")[2], Whitespace)

====
